---- MODULE Spec2Model ----
(***************************************************************************)
(* Model of the GlobWatcher webpack plugin of MagikIO/rune: the resolution *)
(* of glob patterns into an entry map (getEntries / getFiles), the         *)
(* bookkeeping of the static GlobWatcher.directories collection and the    *)
(* afterCompile hook that hands the tracked directories to webpack.        *)
(*                                                                         *)
(* A path is a sequence of segments and a segment is a sequence of name    *)
(* tokens, so that "./src/Rune.ts" is << <<".">>, <<"src">>,               *)
(* <<"Rune", ".ts">> >>.  A JavaScript value is a record [t, v] holding    *)
(* its dynamic type and its payload.                                       *)
(*                                                                         *)
(* A value that a loop carries from one iteration to the next is bound     *)
(* with CHOOSE result \in {f(x) : x \in {e}} : TRUE, which is f(e) with e    *)
(* computed exactly once.                                                  *)
(*                                                                         *)
(* The repository holds two versions of the class.  In the Set-based one   *)
(* (src/unnamed/part_005) getEntries returns the entry map and directories *)
(* is a Set; in the deferred one (src/src/plugins/GlobWatcher.ts)          *)
(* getEntries returns a function that resolves the entry map when it is    *)
(* called and directories is an array.  variant says which one is loaded.  *)
(*                                                                         *)
(* Spec is a program that calls GlobWatcher directly.  SpecKept is a       *)
(* program that holds on to the functions the deferred getEntries returns  *)
(* and calls them later, in any order.  SpecRune is a program that builds  *)
(* its webpack configuration through the Rune class (src/src/types/        *)
(* Types.ts), which calls the Set-based GlobWatcher.                       *)
(***************************************************************************)
EXTENDS Integers, Sequences, FiniteSets, TLC

VARIABLES variant, directories, NODE_ENV, last, kept, rootDir, held

vars == <<variant, directories, NODE_ENV, last, kept, rootDir, held>>

\* ------------------------------------------------------------------ bounds
MaxGlobs == 2
MaxKept == 2

\* ------------------------------------------------------- JavaScript values
\* [t, v, items]: the dynamic type, the text of a primitive (written as a path)
\* and the elements of an array
JS(t, v, items) == [t |-> t, v |-> v, items |-> items]
Text(s) == <<<<s>>>>
Undefined == JS("undefined", <<>>, <<>>)
Null == JS("null", <<>>, <<>>)
Num(n) == JS("number", Text(n), <<>>)
Bool(b) == JS("boolean", Text(b), <<>>)
Str(s) == JS("string", s, <<>>)
Arr(q) == JS("array", <<>>, q)
PlainObject == JS("object", <<>>, <<>>)

TypeOf(x) ==
  IF x.t \in {"null", "array", "object"} THEN "object" ELSE x.t

IsArray(x) == x.t = "array"

Truthy(x) ==
  CASE x.t \in {"undefined", "null"} -> FALSE
    [] x.t = "number" -> x.v # Text("0")
    [] x.t = "boolean" -> x.v = Text("true")
    [] x.t = "string" -> x.v # <<>>
    [] OTHER -> TRUE

\* x ?? d
Nullish(x, d) == IF x.t \in {"undefined", "null"} THEN d ELSE x

\* ------------------------------------------------------------------- paths
DOT == <<".">>
DOTDOT == <<"..">>
SRC == <<"src">>
TEST == <<"test">>
PLUGINS == <<"plugins">>
PRIVATE == <<"private">>
LEGACY_TS == <<"legacy", ".ts">>
GLOBSTAR == <<"**">>
STAR_TS == <<"*", ".ts">>

IsGlobby(seg) == \E i \in 1..Len(seg) : seg[i] \in {"*", "**"}

RECURSIVE normalizeFrom(_, _)
normalizeFrom(p, acc) ==
  IF p = <<>> THEN acc
  ELSE IF Head(p) = DOT THEN normalizeFrom(Tail(p), acc)
  ELSE IF Head(p) = DOTDOT /\ acc # <<>> /\ acc[Len(acc)] # DOTDOT
    THEN normalizeFrom(Tail(p), SubSeq(acc, 1, Len(acc) - 1))
  ELSE normalizeFrom(Tail(p), Append(acc, Head(p)))

\* path.normalize of a relative path
normalize(p) ==
  LET n == normalizeFrom(p, <<>>) IN IF n = <<>> THEN <<DOT>> ELSE n

RECURSIVE dirnameWhileGlobby(_)
dirnameWhileGlobby(p) ==
  IF \E i \in 1..Len(p) : IsGlobby(p[i])
    THEN dirnameWhileGlobby(SubSeq(p, 1, Len(p) - 1))
    ELSE p

\* glob-parent: one dirname, then dirname while the rest is globby
globParent(pattern) ==
  LET d == dirnameWhileGlobby(SubSeq(pattern, 1, Len(pattern) - 1))
  IN IF d = <<>> THEN <<DOT>> ELSE d

IsPrefix(a, b) == Len(a) <= Len(b) /\ SubSeq(b, 1, Len(a)) = a

\* ---------------------------------------------------------- the file tree
\* the files on disk, normalized, in the order a scan reports them
Files ==
  << <<SRC, <<"Rune", ".ts">> >>,
     <<SRC, LEGACY_TS, <<"index", ".ts">> >>,
     <<SRC, PLUGINS, <<"GlobWatcher", ".ts">> >>,
     <<SRC, PLUGINS, <<"Rune", ".ts">> >>,
     <<TEST, <<"notes", ".md">> >> >>

\* the patterns callers pass
P_DotSrc == <<DOT, SRC, GLOBSTAR, STAR_TS>>
P_Src == <<SRC, GLOBSTAR, STAR_TS>>
P_DotTest == <<DOT, TEST, GLOBSTAR, STAR_TS>>
P_Private == <<DOT, PRIVATE, GLOBSTAR, STAR_TS>>

Patterns == {P_DotSrc, P_Src, P_DotTest, P_Private}

\* `${entryPointDir}**/*.ts`: the text of the directory, then the glob
entryPattern(entryPointDir) ==
  SubSeq(entryPointDir, 1, Len(entryPointDir) - 1)
    \o <<entryPointDir[Len(entryPointDir)] \o GLOBSTAR>> \o <<STAR_TS>>

\* './src/pages', the entryPointDir of a Rune that is given none
DefaultEntryPointDir == <<DOT, SRC, <<"pages">>>>

\* the entry directories Runes are constructed with: './src/', './test/' and,
\* as in the tests, './src'; a trailing slash is an empty last segment
EntryPointDirs == {<<DOT, SRC, <<>>>>, <<DOT, TEST, <<>>>>, <<DOT, SRC>>}

RunePatterns == {entryPattern(e) : e \in EntryPointDirs \cup {DefaultEntryPointDir}}

\* the patterns whose scan fails: the directory cannot be read
Unreadable == {P_Private}

\* a segment with a wildcard matches a name that has the tokens before and
\* after the wildcard; a leading wildcard stands for at least one token
SegmentMatches(ps, fs) ==
  LET w == CHOOSE i \in 1..Len(ps) : ps[i] \in {"*", "**"}
      before == SubSeq(ps, 1, w - 1)
      after == SubSeq(ps, w + 1, Len(ps))
  IN /\ Len(fs) >= Len(before) + Len(after)
     /\ before = <<>> => Len(fs) > Len(after)
     /\ SubSeq(fs, 1, Len(before)) = before
     /\ SubSeq(fs, Len(fs) - Len(after) + 1, Len(fs)) = after

RECURSIVE Matches(_, _)
Matches(pat, file) ==
  IF pat = <<>> THEN file = <<>>
  ELSE IF Head(pat) = DOT THEN Matches(Tail(pat), file)
  ELSE IF Head(pat) = GLOBSTAR
    THEN Matches(Tail(pat), file)
         \/ (Len(file) > 1 /\ Matches(pat, Tail(file)))
  ELSE IF file = <<>> THEN FALSE
  ELSE IF IsGlobby(Head(pat))
    THEN SegmentMatches(Head(pat), Head(file)) /\ Matches(Tail(pat), Tail(file))
  ELSE Head(pat) = Head(file) /\ Matches(Tail(pat), Tail(file))

RECURSIVE scanFrom(_, _)
scanFrom(pattern, i) ==
  IF i > Len(Files) THEN <<>>
  ELSE LET base == globParent(pattern)
           rest == scanFrom(pattern, i + 1)
       IN IF Matches(pattern, Files[i])
            THEN <<base \o SubSeq(Files[i], Len(normalize(base)) + 1, Len(Files[i]))>> \o rest
            ELSE rest

\* what a scan of each pattern reports
Listing == [p \in Patterns \cup RunePatterns |-> scanFrom(p, 1)]

\* fast-glob's globSync: the matched files, written with the pattern's prefix
globSync(pattern) == Listing[pattern]

\* ------------------------------------------------------------ plugin options
\* a PluginOptions argument: its dynamic type and, for an object, its fields
Options(t, basename, globOptions, includeHMR, developmentURL) ==
  [t |-> t, basename_as_entry_name |-> basename, globOptions |-> globOptions,
   includeHMR |-> includeHMR, developmentURL |-> developmentURL]

NoFields(t) == Options(t, Undefined, Undefined, Undefined, Undefined)

\* pluginOptions?.field : undefined on undefined, null and on primitives
Field(o, f) == IF o.t = "object" THEN o[f] ELSE Undefined

DefaultDevelopmentURL == Str(Text("http://localhost:5000"))

\* --------------------------------------------------------------- entry maps
EmptyObject == <<>>

\* obj[k] = v
SetKey(obj, k, v) ==
  [x \in DOMAIN obj \cup {k} |-> IF x = k THEN v ELSE obj[x]]

\* Object.assign(target, source): the keys of source overwrite those of target
ObjectAssign(target, source) ==
  [k \in DOMAIN target \cup DOMAIN source |->
     IF k \in DOMAIN source THEN source[k] ELSE target[k]]

FileItem(file) == [k |-> "file", p |-> file]
HmrItem(url) == [k |-> "hmr", p |-> url]
BareString(item) == [t |-> "string", v |-> <<item>>]
ArrayOf(items) == [t |-> "array", v |-> items]

\* path.extname: the last token of the last segment, unless the name is that token
extname(file) ==
  LET b == file[Len(file)]
  IN IF Len(b) > 1 /\ b[Len(b)] \in {".ts", ".md", ".html"} THEN b[Len(b)] ELSE ""

\* path.relative(base, file) for a file below base
relative(base, file) ==
  LET nb == normalize(base)
      nf == normalize(file)
  IN IF nb = <<DOT>> THEN nf
     ELSE IF IsPrefix(nb, nf) THEN SubSeq(nf, Len(nb) + 1, Len(nf))
     ELSE [i \in 1..Len(nb) |-> DOTDOT] \o nf

RECURSIVE removeFirstToken(_, _)
removeFirstToken(seg, tok) ==
  IF seg = <<>> THEN <<>>
  ELSE IF Head(seg) = tok THEN Tail(seg)
  ELSE <<Head(seg)>> \o removeFirstToken(Tail(seg), tok)

RECURSIVE replaceFirst(_, _)
\* String.prototype.replace(ext, ''): the first occurrence only
replaceFirst(p, ext) ==
  IF ext = "" \/ p = <<>> THEN p
  ELSE IF \E i \in 1..Len(Head(p)) : Head(p)[i] = ext
    THEN <<removeFirstToken(Head(p), ext)>> \o Tail(p)
  ELSE <<Head(p)>> \o replaceFirst(Tail(p), ext)

\* path.basename of an entry name
basename(p) == IF p = <<>> THEN <<>> ELSE <<p[Len(p)]>>

entryNameOf(base, file, pluginOptions) ==
  LET n == replaceFirst(relative(base, file), extname(file))
  IN IF Truthy(Field(pluginOptions, "basename_as_entry_name")) THEN basename(n) ELSE n

\* the helper URL is added whatever NODE_ENV is
targetsOfIgnoresEnv(file, pluginOptions, env) ==
  LET developmentURL == Nullish(Field(pluginOptions, "developmentURL"), DefaultDevelopmentURL)
  IN IF Truthy(Field(pluginOptions, "includeHMR"))
       THEN ArrayOf(<<FileItem(file), HmrItem(developmentURL.v)>>)
       ELSE ArrayOf(<<FileItem(file)>>)

targetsOf(file, pluginOptions, env) ==
  LET developmentURL == Nullish(Field(pluginOptions, "developmentURL"), DefaultDevelopmentURL)
  IN IF Truthy(Field(pluginOptions, "includeHMR")) /\ env = "development"
       THEN ArrayOf(<<FileItem(file), HmrItem(developmentURL.v)>>)
       ELSE ArrayOf(<<FileItem(file)>>)

\* without the else branch: the bare file path stays when no helper URL is added
addFileWithoutElse(files, base, file, pluginOptions, env) ==
  CHOOSE files2 \in
    {IF Truthy(Field(pluginOptions, "includeHMR")) /\ env = "development"
       THEN SetKey(files, entryName, targetsOf(file, pluginOptions, env))
       ELSE SetKey(files, entryName, BareString(FileItem(file))) :
       entryName \in {entryNameOf(base, file, pluginOptions)}} : TRUE

\* an entry name that is already a key keeps the targets it has
addFileFirstWins(files, base, file, pluginOptions, env) ==
  CHOOSE files2 \in
    {IF entryName \in DOMAIN files
       THEN files
       ELSE SetKey(files, entryName, targetsOf(file, pluginOptions, env)) :
       entryName \in {entryNameOf(base, file, pluginOptions)}} : TRUE

\* the body of the loop over the matched files, for one file
addFile(files, base, file, pluginOptions, env) ==
  CHOOSE files2 \in
    {SetKey(SetKey(files, entryName, BareString(FileItem(file))),
            entryName, targetsOf(file, pluginOptions, env)) :
       entryName \in {entryNameOf(base, file, pluginOptions)}} : TRUE

RECURSIVE forEachFile(_, _, _, _, _, _)
forEachFile(matched, j, base, pluginOptions, env, files) ==
  IF j > Len(matched) THEN files
  ELSE CHOOSE result \in
         {forEachFile(matched, j + 1, base, pluginOptions, env, files2) :
            files2 \in {addFile(files, base, matched[j], pluginOptions, env)}} : TRUE

ScanFailure == "ScanFailure"
GlobParentTypeError == "TypeError: str.slice is not a function"

NoMatchError == "Error: no files matched"

\* a scan that reports no file is treated as an error
getFilesNoMatchThrows(globString, pluginOptions, env) ==
  LET globOptions == Nullish(Field(pluginOptions, "globOptions"), PlainObject)
      scan == [pattern |-> globString, globOptions |-> globOptions]
  IN IF globString.t # "string"
       THEN [threw |-> TRUE, error |-> GlobParentTypeError, files |-> EmptyObject,
             scans |-> <<>>]
     ELSE IF globString.v \in Unreadable
       THEN [threw |-> TRUE, error |-> ScanFailure, files |-> EmptyObject,
             scans |-> <<scan>>]
     ELSE IF globSync(globString.v) = <<>>
       THEN [threw |-> TRUE, error |-> NoMatchError, files |-> EmptyObject,
             scans |-> <<scan>>]
     ELSE CHOOSE result \in
            {[threw |-> FALSE, error |-> "none", scans |-> <<scan>>,
              files |-> forEachFile(matched, 1, base, pluginOptions, env, EmptyObject)] :
               matched \in {globSync(globString.v)}, base \in {globParent(globString.v)}} : TRUE

\* GlobWatcher.getFiles; scans holds the call globSync received, if it got one
getFiles(globString, pluginOptions, env) ==
  LET globOptions == Nullish(Field(pluginOptions, "globOptions"), PlainObject)
      scan == [pattern |-> globString, globOptions |-> globOptions]
  IN IF globString.t # "string"
       THEN [threw |-> TRUE, error |-> GlobParentTypeError, files |-> EmptyObject,
             scans |-> <<>>]
     ELSE IF globString.v \in Unreadable
       THEN [threw |-> TRUE, error |-> ScanFailure, files |-> EmptyObject,
             scans |-> <<scan>>]
     ELSE CHOOSE result \in
            {[threw |-> FALSE, error |-> "none", scans |-> <<scan>>,
              files |-> forEachFile(matched, 1, base, pluginOptions, env, EmptyObject)] :
               matched \in {globSync(globString.v)}, base \in {globParent(globString.v)}} : TRUE

\* ------------------------------------------------------------- getEntries
ErrPluginOptions == "TypeError: pluginOptions_ must be an object"
ErrGlobs == "TypeError: Globs must be a string or an array of strings"
ErrGlobOptions == "TypeError: globOptions must be an object"

\* the argument checks without the one on globs
validateWithoutGlobsCheck(globs, pluginOptions) ==
  IF TypeOf(pluginOptions) # "undefined" /\ TypeOf(pluginOptions) # "object"
    THEN ErrPluginOptions
  ELSE IF Truthy(Field(pluginOptions, "globOptions"))
          /\ TypeOf(Field(pluginOptions, "globOptions")) # "object"
    THEN ErrGlobOptions
  ELSE "none"

\* the argument checks without the one on pluginOptions
validateWithoutOptionsCheck(globs, pluginOptions) ==
  IF TypeOf(globs) # "string" /\ ~IsArray(globs)
    THEN ErrGlobs
  ELSE IF Truthy(Field(pluginOptions, "globOptions"))
          /\ TypeOf(Field(pluginOptions, "globOptions")) # "object"
    THEN ErrGlobOptions
  ELSE "none"

\* the three argument checks, in the order the code makes them
validate(globs, pluginOptions) ==
  IF TypeOf(pluginOptions) # "undefined" /\ TypeOf(pluginOptions) # "object"
    THEN ErrPluginOptions
  ELSE IF TypeOf(globs) # "string" /\ ~IsArray(globs)
    THEN ErrGlobs
  ELSE IF Truthy(Field(pluginOptions, "globOptions"))
          /\ TypeOf(Field(pluginOptions, "globOptions")) # "object"
    THEN ErrGlobOptions
  ELSE "none"

\* Object.assign({ basename_as_entry_id: false }, pluginOptions)
optionDefaults(pluginOptions) ==
  IF pluginOptions.t = "object" THEN pluginOptions ELSE NoFields("object")

\* a string is dropped instead of wrapped
globsArrayDropsString(globs) == IF IsArray(globs) THEN globs.items ELSE <<>>

\* if (!Array.isArray(globs)) globs = [globs]
globsArray(globs) == IF IsArray(globs) THEN globs.items ELSE <<globs>>

\* the assignment rebinds the parameter: the caller's value is not touched
rebind(globs) == [parameter |-> globsArray(globs), caller |-> globs]

\* GlobWatcher.directories = new Set(): an ordered collection without duplicates
EmptyDirectories == <<>>

Has(dirs, d) == \E i \in 1..Len(dirs) : dirs[i] = d

\* if (!directories.has(base)) directories.add(base)
addDirectory(dirs, base) == IF Has(dirs, base) THEN dirs ELSE Append(dirs, base)

\* globbedFiles = Object.assign(files, globbedFiles)
mergeFiles(files, globbedFiles) == ObjectAssign(files, globbedFiles)

RECURSIVE forEachGlob(_, _, _, _, _, _, _)

\* an error of getFiles is caught and the loop goes on with the next pattern
afterGetFilesSwallowsError(globs, i, options, env, dirs1, globbedFiles, scans, r) ==
  CHOOSE result \in
    {forEachGlob(globs, i + 1, options, env, dirs1, merged, scans1) :
       merged \in {mergeFiles(r.files, globbedFiles)},
       scans1 \in {scans \o r.scans}} : TRUE

\* what the loop does once the files of a pattern are known
afterGetFiles(globs, i, options, env, dirs1, globbedFiles, scans, r) ==
  IF r.threw
    THEN [threw |-> TRUE, error |-> r.error, value |-> EmptyObject,
          directories |-> dirs1, scans |-> scans \o r.scans]
    ELSE CHOOSE result \in
           {forEachGlob(globs, i + 1, options, env, dirs1, merged, scans1) :
              merged \in {mergeFiles(r.files, globbedFiles)},
              scans1 \in {scans \o r.scans}} : TRUE

\* the base of a pattern is tracked once its files are known
forEachGlobTracksAfterScan(globs, i, options, env, dirs, globbedFiles, scans) ==
  IF i > Len(globs)
    THEN [threw |-> FALSE, error |-> "none", value |-> globbedFiles,
          directories |-> dirs, scans |-> scans]
  ELSE IF globs[i].t # "string"
    THEN [threw |-> TRUE, error |-> GlobParentTypeError, value |-> EmptyObject,
          directories |-> dirs, scans |-> scans]
  ELSE CHOOSE result \in
         {afterGetFiles(globs, i, options, env, dirs1, globbedFiles, scans, r) :
            dirs1 \in {IF getFiles(globs[i], options, env).threw
                         THEN dirs
                         ELSE addDirectory(dirs, globParent(globs[i].v))},
            r \in {getFiles(globs[i], options, env)}} : TRUE

\* the loop over the patterns
forEachGlob(globs, i, options, env, dirs, globbedFiles, scans) ==
  IF i > Len(globs)
    THEN [threw |-> FALSE, error |-> "none", value |-> globbedFiles,
          directories |-> dirs, scans |-> scans]
  ELSE IF globs[i].t # "string"
    THEN [threw |-> TRUE, error |-> GlobParentTypeError, value |-> EmptyObject,
          directories |-> dirs, scans |-> scans]
  ELSE CHOOSE result \in
         {afterGetFiles(globs, i, options, env, dirs1, globbedFiles, scans, r) :
            dirs1 \in {addDirectory(dirs, globParent(globs[i].v))},
            r \in {getFiles(globs[i], options, env)}} : TRUE

\* the directories are not cleared
keepDirectories(dirs) == dirs

\* GlobWatcher.directories.clear()
resetDirectories(dirs) == EmptyDirectories

\* the directories are cleared before the arguments are checked
getEntriesResetsFirst(globs, pluginOptions, env, dirs) ==
  IF validate(globs, pluginOptions) # "none"
    THEN [threw |-> TRUE, error |-> validate(globs, pluginOptions), value |-> EmptyObject,
          directories |-> resetDirectories(dirs), scans |-> <<>>, argument |-> globs]
    ELSE CHOOSE result \in
           {[threw |-> r.threw, error |-> r.error, value |-> r.value,
             directories |-> r.directories, scans |-> r.scans, argument |-> b.caller] :
              b \in {rebind(globs)},
              r \in {forEachGlob(array, 1, options, env, cleared, EmptyObject, <<>>) :
                       array \in {rebind(globs).parameter},
                       options \in {optionDefaults(pluginOptions)},
                       cleared \in {resetDirectories(dirs)}}} : TRUE

\* GlobWatcher.getEntries on the static directories dirs: the outcome of the
\* call, the directories afterwards and the calls globSync received
getEntries(globs, pluginOptions, env, dirs) ==
  IF validate(globs, pluginOptions) # "none"
    THEN [threw |-> TRUE, error |-> validate(globs, pluginOptions), value |-> EmptyObject,
          directories |-> dirs, scans |-> <<>>, argument |-> globs]
    ELSE CHOOSE result \in
           {[threw |-> r.threw, error |-> r.error, value |-> r.value,
             directories |-> r.directories, scans |-> r.scans, argument |-> b.caller] :
              b \in {rebind(globs)},
              r \in {forEachGlob(array, 1, options, env, cleared, EmptyObject, <<>>) :
                       array \in {rebind(globs).parameter},
                       options \in {optionDefaults(pluginOptions)},
                       cleared \in {resetDirectories(dirs)}}} : TRUE

\* ----------------------------------------------- the deferred getEntries
\* the body of the loop over the matched files in the deferred version: the
\* entry name maps to the bare path, and with includeHMR the path itself
\* becomes a second key
addFileDeferred(files, base, file, pluginOptions, env) ==
  CHOOSE files2 \in
    {IF ~Truthy(Field(pluginOptions, "includeHMR")) THEN files1
     ELSE IF env = "development"
       THEN SetKey(files1, file,
                   ArrayOf(<<HmrItem(DefaultDevelopmentURL.v), FileItem(file)>>))
     ELSE IF env = "production"
       THEN SetKey(files1, file, ArrayOf(<<FileItem(file)>>))
     ELSE files1 :
       files1 \in {SetKey(files, entryNameOf(base, file, pluginOptions),
                          BareString(FileItem(file)))}} : TRUE

RECURSIVE forEachFileDeferred(_, _, _, _, _, _)
forEachFileDeferred(matched, j, base, pluginOptions, env, files) ==
  IF j > Len(matched) THEN files
  ELSE CHOOSE result \in
         {forEachFileDeferred(matched, j + 1, base, pluginOptions, env, files2) :
            files2 \in {addFileDeferred(files, base, matched[j], pluginOptions, env)}} : TRUE

\* GlobWatcher.getFiles of the deferred version
getFilesDeferred(globString, pluginOptions, env) ==
  LET globOptions == Nullish(Field(pluginOptions, "globOptions"), PlainObject)
      scan == [pattern |-> globString, globOptions |-> globOptions]
  IN IF globString.t # "string"
       THEN [threw |-> TRUE, error |-> GlobParentTypeError, files |-> EmptyObject,
             scans |-> <<>>]
     ELSE IF globString.v \in Unreadable
       THEN [threw |-> TRUE, error |-> ScanFailure, files |-> EmptyObject,
             scans |-> <<scan>>]
     ELSE CHOOSE result \in
            {[threw |-> FALSE, error |-> "none", scans |-> <<scan>>,
              files |-> forEachFileDeferred(matched, 1, base, pluginOptions, env, EmptyObject)] :
               matched \in {globSync(globString.v)}, base \in {globParent(globString.v)}} : TRUE

\* the loop over the patterns inside the returned function; directories is an
\* array that is given a base when indexOf does not find it
RECURSIVE forEachGlobDeferred(_, _, _, _, _, _, _)
forEachGlobDeferred(globs, i, options, env, dirs, globbedFiles, scans) ==
  IF i > Len(globs)
    THEN [threw |-> FALSE, error |-> "none", value |-> globbedFiles,
          directories |-> dirs, scans |-> scans]
  ELSE IF globs[i].t # "string"
    THEN [threw |-> TRUE, error |-> GlobParentTypeError, value |-> EmptyObject,
          directories |-> dirs, scans |-> scans]
  ELSE CHOOSE result \in
         {IF r.threw
            THEN [threw |-> TRUE, error |-> r.error, value |-> EmptyObject,
                  directories |-> dirs1, scans |-> scans \o r.scans]
            ELSE CHOOSE rest \in
                   {forEachGlobDeferred(globs, i + 1, options, env, dirs1, merged, scans1) :
                      merged \in {mergeFiles(r.files, globbedFiles)},
                      scans1 \in {scans \o r.scans}} : TRUE :
            dirs1 \in {addDirectory(dirs, globParent(globs[i].v))},
            r \in {getFilesDeferred(globs[i], options, env)}} : TRUE

\* what the returned function has captured
Closure(globs, options) == [globs |-> globs, options |-> options]

\* getEntries of the deferred version: the checks, the reset of directories
\* and the function it returns
getEntriesDeferred(globs, pluginOptions, dirs) ==
  IF validate(globs, pluginOptions) # "none"
    THEN [threw |-> TRUE, error |-> validate(globs, pluginOptions), directories |-> dirs,
          returned |-> Closure(globs, NoFields("object"))]
    ELSE [threw |-> FALSE, error |-> "none", directories |-> resetDirectories(dirs),
          returned |-> Closure(globs, optionDefaults(pluginOptions))]

\* a call of the function getEntries returned
runEntries(closure, env, dirs) ==
  CHOOSE result \in
    {forEachGlobDeferred(array, 1, closure.options, env, dirs, EmptyObject, <<>>) :
       array \in {globsArray(closure.globs)}} : TRUE

\* ------------------------------------------------------------ afterCompile
LIB == <<"lib">>

\* a Set keeps its values in insertion order, without duplicates
SetOf(values) == [shape |-> "Set", values |-> values]
ArrayDeps(values) == [shape |-> "Array", values |-> values]
NeitherDeps == [shape |-> "Neither", values |-> <<>>]

Event(e, d) == [e |-> e, d |-> d]
CallbackEvent == Event("callback", <<>>)

\* a Set receives the directory as tracked, not normalized
insertDirectoryRaw(deps, directory) ==
  IF deps.shape = "Set"
    THEN [deps |-> SetOf(addDirectory(deps.values, directory)),
          events |-> <<Event("add", directory)>>]
  ELSE IF deps.shape = "Array"
    THEN [deps |-> ArrayDeps(Append(deps.values, normalize(directory))),
          events |-> <<Event("push", normalize(directory))>>]
  ELSE [deps |-> deps, events |-> <<>>]

\* an array is not given a directory it already holds
insertDirectoryOnce(deps, directory) ==
  IF deps.shape = "Set" \/ (deps.shape = "Array" /\ Has(deps.values, normalize(directory)))
    THEN [deps |-> [shape |-> deps.shape,
                    values |-> addDirectory(deps.values, normalize(directory))],
          events |-> <<Event("add", normalize(directory))>>]
  ELSE IF deps.shape = "Array"
    THEN [deps |-> ArrayDeps(Append(deps.values, normalize(directory))),
          events |-> <<Event("push", normalize(directory))>>]
  ELSE [deps |-> deps, events |-> <<>>]

\* the body of the for loop, for one directory
insertDirectory(deps, directory) ==
  IF deps.shape = "Set"
    THEN [deps |-> SetOf(addDirectory(deps.values, normalize(directory))),
          events |-> <<Event("add", normalize(directory))>>]
  ELSE IF deps.shape = "Array"
    THEN [deps |-> ArrayDeps(Append(deps.values, normalize(directory))),
          events |-> <<Event("push", normalize(directory))>>]
  ELSE [deps |-> deps, events |-> <<>>]

RECURSIVE forEachDirectory(_, _, _, _)
forEachDirectory(dirs, i, deps, log) ==
  IF i > Len(dirs) THEN [contextDependencies |-> deps, log |-> log]
  ELSE CHOOSE result \in
         {forEachDirectory(dirs, i + 1, r.deps, log1) :
            r \in {insertDirectory(deps, dirs[i])},
            log1 \in {log \o insertDirectory(deps, dirs[i]).events}} : TRUE

\* the callback is called inside the loop, once per directory
RECURSIVE callbackPerDirectory(_, _, _, _)
callbackPerDirectory(dirs, i, deps, log) ==
  IF i > Len(dirs) THEN [contextDependencies |-> deps, log |-> log]
  ELSE CHOOSE result \in
         {callbackPerDirectory(dirs, i + 1, r.deps, log1) :
            r \in {insertDirectory(deps, dirs[i])},
            log1 \in {Append(log \o insertDirectory(deps, dirs[i]).events, CallbackEvent)}} : TRUE

afterCompileCallbackInLoop(deps, dirs) == callbackPerDirectory(dirs, 1, deps, <<>>)

\* the callback is only called when a directory was handed over
afterCompileCallbackUnlessEmpty(deps, dirs) ==
  CHOOSE result \in
    {[contextDependencies |-> r.contextDependencies,
      log |-> IF dirs = <<>> THEN r.log ELSE Append(r.log, CallbackEvent)] :
       r \in {forEachDirectory(dirs, 1, deps, <<>>)}} : TRUE

\* GlobWatcher.afterCompile: the container afterwards and the calls made, in order
afterCompile(deps, dirs) ==
  CHOOSE result \in
    {[contextDependencies |-> r.contextDependencies, log |-> Append(r.log, CallbackEvent)] :
       r \in {forEachDirectory(dirs, 1, deps, <<>>)}} : TRUE

\* afterCompile of the deferred version: a Set is given every directory
\* normalized, an array is replaced by its concat with directories
afterCompileDeferred(deps, dirs) ==
  IF deps.shape = "Set"
    THEN afterCompile(deps, dirs)
  ELSE IF deps.shape = "Array"
    THEN [contextDependencies |-> ArrayDeps(deps.values \o dirs),
          log |-> <<Event("concat", <<>>), CallbackEvent>>]
  ELSE [contextDependencies |-> deps, log |-> <<CallbackEvent>>]

\* ------------------------------------------------------------------- apply
\* a compiler: whether it has the hooks registry and whether it has plugin()
Compiler(hooks, plugin) == [hooks |-> hooks, plugin |-> plugin]

\* this.constructor.name of a GlobWatcher instance
ConstructorName == "GlobWatcher"

\* one registration: the API used, the name given and whether the handler is bound
Registration(api, name, bound) ==
  [api |-> api, name |-> name, handler |-> "afterCompile", bound |-> bound]

\* the legacy API is tried first
applyLegacyFirst(compiler) ==
  IF compiler.plugin
    THEN <<Registration("plugin", "after-compile", FALSE)>>
    ELSE <<Registration("tapAsync", ConstructorName, TRUE)>>

\* GlobWatcher.apply: the registrations it makes on the compiler, in order
apply(compiler) ==
  IF compiler.hooks
    THEN <<Registration("tapAsync", ConstructorName, TRUE)>>
    ELSE <<Registration("plugin", "after-compile", FALSE)>>

\* -------------------------------------------------------------------- Rune
ROOT == <<"/">>
\* process.cwd()
CWD == <<ROOT, <<"work">>, <<"rune">>>>
CUSTOM_ROOT == <<ROOT, <<"custom">>, <<"root">>>>
OTHER_ROOT == <<ROOT, <<"srv">>, <<"app">>>>

PUBLIC_BUNDLES == <<<<"public">>, <<"bundles">>>>
ASSETS_MANIFEST == <<<<"assets">>, <<"manifest", ".json">>>>

isRelative(p) == p # <<>> /\ Head(p) \in {DOT, DOTDOT}

\* path.join(root, p) for an absolute root
join(root, p) == normalizeFrom(root \o SelectSeq(p, LAMBDA seg : seg # ROOT), <<>>)

\* Rune.jResolve(...paths) while Rune.rootDir is root
jResolve(root, p) == join(root, p)

\* Rune.tools(rootDir): the value Rune.rootDir is given
tools(argument) == Nullish(argument, Str(CWD)).v

\* the argument of the constructor
RuneOptions(root, entryPointDir, mode, developmentURL, outputDir, manifest) ==
  [rootDir |-> root, entryPointDir |-> entryPointDir, mode |-> mode,
   developmentURL |-> developmentURL, outputDir |-> outputDir, manifest |-> manifest]

\* the fields of an instance
RuneInstance(mode, entryPointDir, outputDir, manifest, developmentURL, entries) ==
  [mode |-> mode, entryPointDir |-> entryPointDir, outputDir |-> outputDir,
   manifest |-> manifest, developmentURL |-> developmentURL, entries |-> entries]

NoRune == RuneInstance("none", <<>>, <<>>, <<>>, <<>>, EmptyObject)

\* Rune.getEntries: one pattern, the helper URL asked for in development mode
runeGetEntries(mode, entryPointDir, developmentURL, env, dirs) ==
  getEntries(Arr(<<Str(entryPattern(entryPointDir))>>),
             Options("object", Undefined, Undefined,
                     Bool(IF mode = "development" THEN "true" ELSE "false"),
                     Str(developmentURL)),
             env, dirs)

\* a Rune that is given no mode takes it from NODE_ENV
newRuneModeFromEnv(options, env, staticRoot, dirs) ==
  LET mode == IF Truthy(options.mode) THEN options.mode.v[1][1] ELSE env
      root == Nullish(options.rootDir, Str(CWD)).v
      entryPointDir ==
        IF ~Truthy(options.entryPointDir) THEN DefaultEntryPointDir
        ELSE IF isRelative(options.entryPointDir.v) THEN options.entryPointDir.v
        ELSE join(root, options.entryPointDir.v)
      outputDir ==
        IF ~Truthy(options.outputDir) THEN jResolve(staticRoot, PUBLIC_BUNDLES)
        ELSE IF isRelative(options.outputDir.v) THEN jResolve(root, options.outputDir.v)
        ELSE options.outputDir.v
      manifest ==
        IF ~Truthy(options.manifest) THEN jResolve(staticRoot, ASSETS_MANIFEST)
        ELSE IF isRelative(options.manifest.v) THEN jResolve(root, options.manifest.v)
        ELSE options.manifest.v
      developmentURL ==
        IF Truthy(options.developmentURL) THEN options.developmentURL.v
        ELSE DefaultDevelopmentURL.v
  IN CHOOSE result \in
       {[threw |-> r.threw, error |-> r.error, rootDir |-> root,
         directories |-> r.directories,
         rune |-> RuneInstance(mode, entryPointDir, outputDir, manifest,
                               developmentURL, r.value)] :
          r \in {runeGetEntries(mode, entryPointDir, developmentURL, env, dirs)}} : TRUE

\* new Rune(options) while Rune.rootDir is staticRoot: the field initializers
\* run first, with the root directory the class has at that moment, and the
\* body of the constructor after them
newRune(options, env, staticRoot, dirs) ==
  LET mode == IF Truthy(options.mode) THEN options.mode.v[1][1] ELSE "production"
      root == Nullish(options.rootDir, Str(CWD)).v
      entryPointDir ==
        IF ~Truthy(options.entryPointDir) THEN DefaultEntryPointDir
        ELSE IF isRelative(options.entryPointDir.v) THEN options.entryPointDir.v
        ELSE join(root, options.entryPointDir.v)
      outputDir ==
        IF ~Truthy(options.outputDir) THEN jResolve(staticRoot, PUBLIC_BUNDLES)
        ELSE IF isRelative(options.outputDir.v) THEN jResolve(root, options.outputDir.v)
        ELSE options.outputDir.v
      manifest ==
        IF ~Truthy(options.manifest) THEN jResolve(staticRoot, ASSETS_MANIFEST)
        ELSE IF isRelative(options.manifest.v) THEN jResolve(root, options.manifest.v)
        ELSE options.manifest.v
      developmentURL ==
        IF Truthy(options.developmentURL) THEN options.developmentURL.v
        ELSE DefaultDevelopmentURL.v
  IN CHOOSE result \in
       {[threw |-> r.threw, error |-> r.error, rootDir |-> root,
         directories |-> r.directories,
         rune |-> RuneInstance(mode, entryPointDir, outputDir, manifest,
                               developmentURL, r.value)] :
          r \in {runeGetEntries(mode, entryPointDir, developmentURL, env, dirs)}} : TRUE

\* the configOptions argument of getConfig: given says whether there is one,
\* and a key holds <<>> when it is absent and <<value>> when it is supplied
ConfigOptions(given, context, mode, watch, plugins, watchOptions, devtool) ==
  [given |-> given, context |-> context, mode |-> mode, watch |-> watch,
   plugins |-> plugins, watchOptions |-> watchOptions, devtool |-> devtool]

ConfigKeys == {"context", "mode", "watch", "plugins", "watchOptions", "devtool"}

DevelopmentPlugins == <<"HotModuleReplacementPlugin", "GlobWatcher", "WebpackManifestPlugin">>
ProductionPlugins == <<"WebpackManifestPlugin">>
DefaultWatchOptions == "ignored: node_modules, js, d.ts, .git"

\* defu on one key: the value of the user unless it is absent; two arrays are
\* concatenated, the user's elements first
defuKey(user, default) == IF user = <<>> THEN default ELSE user
defuArray(user, default) ==
  IF user = <<>> THEN default
  ELSE IF default = <<>> THEN user
  ELSE <<user[1] \o default[1]>>

\* rune.getConfig(configOptions) while Rune.rootDir is staticRoot
getConfig(rune, configOptions, staticRoot) ==
  LET development == rune.mode = "development"
      merged ==
        [context |-> defuKey(configOptions.context, <<staticRoot>>),
         mode |-> defuKey(configOptions.mode, <<rune.mode>>),
         watch |-> defuKey(configOptions.watch, <<IF development THEN "true" ELSE "false">>),
         entry |-> rune.entries,
         output |-> rune.outputDir,
         plugins |-> defuArray(configOptions.plugins, <<>>),
         watchOptions |-> defuKey(configOptions.watchOptions, <<>>),
         devtool |-> defuKey(configOptions.devtool, <<>>)]
  IN IF development
       THEN [merged EXCEPT !.plugins = <<DevelopmentPlugins>>,
                           !.watchOptions = <<DefaultWatchOptions>>,
                           !.devtool = <<"source-map">>]
       ELSE [merged EXCEPT !.plugins = <<ProductionPlugins>>]

\* ------------------------------------------------------------------ inputs
RECURSIVE SeqsUpTo(_, _)
SeqsUpTo(S, n) ==
  IF n = 0 THEN {<<>>}
  ELSE LET shorter == SeqsUpTo(S, n - 1)
       IN shorter \cup {Append(q, x) : q \in {r \in shorter : Len(r) = n - 1}, x \in S}

PatternStrings == {Str(p) : p \in Patterns}

ValidGlobs == PatternStrings \cup {Arr(q) : q \in SeqsUpTo(PatternStrings, MaxGlobs)}

NonStringGlobs == {Null, Num("42"), Bool("true"), PlainObject}

MixedArrays == {Arr(<<Num("42")>>), Arr(<<Str(P_DotSrc), Num("42")>>)}

GlobsInputs == ValidGlobs \cup NonStringGlobs \cup MixedArrays

WithGlobOptions(x) == Options("object", Undefined, x, Undefined, Undefined)

NonObjectGlobOptions ==
  {Str(Text("not-an-object")), Num("123"), Num("0"), Str(<<>>), Bool("false"), Bool("true")}

NonObjectOptions == {NoFields(t) : t \in {"string", "number", "boolean", "function"}}

ObjectOptions ==
  {NoFields("undefined"), NoFields("object"), NoFields("null"),
   WithGlobOptions(PlainObject),
   Options("object", Bool("true"), Undefined, Undefined, Undefined),
   Options("object", Undefined, Undefined, Bool("true"), Undefined),
   Options("object", Undefined, Undefined, Bool("false"), Str(Text("http://dev.local:3000"))),
   Options("object", Undefined, Undefined, Bool("true"), Str(Text("http://dev.local:3000")))}

OptionInputs ==
  ObjectOptions \cup NonObjectOptions \cup {WithGlobOptions(x) : x \in NonObjectGlobOptions}

\* what callers hand to getFiles as globString
GlobStrings == PatternStrings \cup {Num("42")}

Environments == {"development", "production"}

\* the dependency containers webpack hands to the hook
Containers ==
  {SetOf(<<>>), SetOf(<<<<LIB>>>>), SetOf(<<<<SRC>>>>),
   ArrayDeps(<<>>), ArrayDeps(<<<<LIB>>>>), ArrayDeps(<<<<SRC>>, <<LIB>>>>),
   NeitherDeps}

\* the compilers of webpack 5 (hooks), webpack 4 (both) and webpack 3 (plugin)
Compilers == {Compiler(TRUE, FALSE), Compiler(TRUE, TRUE), Compiler(FALSE, TRUE)}

\* what programs pass to new Rune
RuneOptionsInputs ==
  {RuneOptions(root, Str(entryPointDir), mode, developmentURL, outputDir, Undefined) :
     root \in {Undefined, Str(CUSTOM_ROOT)},
     entryPointDir \in EntryPointDirs,
     mode \in {Undefined, Str(Text("development")), Str(Text("production"))},
     developmentURL \in {Undefined, Str(Text("http://dev.local:3000"))},
     outputDir \in {Undefined, Str(<<DOT, <<"testOut">>>>)}}

\* the Runes a program holds on to while it constructs others
HeldRuneOptions ==
  {RuneOptions(Undefined, Str(entryPointDir), Str(Text("development")),
               Undefined, Undefined, Undefined) : entryPointDir \in EntryPointDirs}

NoConfigOptions == ConfigOptions(FALSE, <<>>, <<>>, <<>>, <<>>, <<>>, <<>>)

\* what programs pass to getConfig
ConfigInputs ==
  {NoConfigOptions,
   ConfigOptions(TRUE, <<>>, <<>>, <<>>, <<>>, <<>>, <<>>),
   ConfigOptions(TRUE, <<OTHER_ROOT>>, <<>>, <<>>, <<>>, <<>>, <<>>),
   ConfigOptions(TRUE, <<>>, <<"development">>, <<"true">>, <<>>, <<>>, <<>>),
   ConfigOptions(TRUE, <<>>, <<>>, <<>>, <<<<"UserPlugin">>>>, <<>>, <<>>),
   ConfigOptions(TRUE, <<>>, <<>>, <<>>, <<>>, <<"poll: 1000">>, <<"eval">>)}

\* the containers of the compilations a Rune configuration is used for
RuneContainers == {SetOf(<<>>), SetOf(<<<<SRC>>>>), ArrayDeps(<<<<LIB>>>>)}

\* ----------------------------------------------------------- state machine
Idle == [op |-> "idle"]

SetBased == "src/unnamed/part_005"
Deferred == "src/src/plugins/GlobWatcher.ts"

Init ==
  /\ variant \in {SetBased, Deferred}
  /\ directories = EmptyDirectories
  /\ NODE_ENV \in Environments
  /\ last = Idle
  /\ kept = <<>>
  /\ rootDir = CWD
  /\ held = NoRune

\* a caller invokes GlobWatcher.getEntries(globs, pluginOptions)
GetEntries ==
  /\ variant = SetBased
  /\ last = Idle
  /\ \E globs \in GlobsInputs, pluginOptions \in OptionInputs :
       \E r \in {getEntries(globs, pluginOptions, NODE_ENV, directories)} :
          /\ directories' = r.directories
          /\ last' = [op |-> "getEntries", globs |-> globs, pluginOptions |-> pluginOptions,
                      callerGlobs |-> r.argument, before |-> directories,
                      threw |-> r.threw, error |-> r.error,
                      value |-> r.value, scans |-> r.scans]
  /\ UNCHANGED <<kept, rootDir, held, variant, NODE_ENV>>

\* a caller of the deferred version invokes GlobWatcher.getEntries and is given
\* a function
GetEntriesDeferred ==
  /\ variant = Deferred
  /\ last = Idle
  /\ \E globs \in GlobsInputs, pluginOptions \in OptionInputs :
       \E r \in {getEntriesDeferred(globs, pluginOptions, directories)} :
          /\ directories' = r.directories
          /\ last' = [op |-> "getEntriesDeferred", globs |-> globs,
                      pluginOptions |-> pluginOptions, before |-> directories,
                      threw |-> r.threw, error |-> r.error, returned |-> r.returned]
  /\ UNCHANGED <<kept, rootDir, held, variant, NODE_ENV>>

\* the caller invokes the function getEntries has just returned
RunEntries ==
  /\ last.op = "getEntriesDeferred"
  /\ ~last.threw
  /\ \E r \in {runEntries(last.returned, NODE_ENV, directories)} :
       /\ directories' = r.directories
       /\ last' = [op |-> "entries", globs |-> last.globs,
                   pluginOptions |-> last.pluginOptions, before |-> directories,
                   threw |-> r.threw, error |-> r.error,
                   value |-> r.value, scans |-> r.scans]
  /\ UNCHANGED <<kept, rootDir, held, variant, NODE_ENV>>

\* getFiles records the base of its pattern in GlobWatcher.directories
GetFilesTracksBase ==
  /\ variant = SetBased
  /\ last = Idle
  /\ \E globString \in GlobStrings, pluginOptions \in OptionInputs :
       \E r \in {getFiles(globString, pluginOptions, NODE_ENV)} :
          /\ last' = [op |-> "getFiles", globString |-> globString,
                      pluginOptions |-> pluginOptions, before |-> directories,
                      threw |-> r.threw, error |-> r.error, value |-> r.files,
                      scans |-> r.scans, calls |-> 1, first |-> r.files]
          /\ directories' = IF globString.t = "string"
                              THEN addDirectory(directories, globParent(globString.v))
                              ELSE directories
  /\ UNCHANGED <<kept, rootDir, held, variant, NODE_ENV>>

\* a caller invokes GlobWatcher.getFiles(globString, pluginOptions) directly
GetFiles ==
  /\ variant = SetBased
  /\ last = Idle
  /\ \E globString \in GlobStrings, pluginOptions \in OptionInputs :
       \E r \in {getFiles(globString, pluginOptions, NODE_ENV)} :
          last' = [op |-> "getFiles", globString |-> globString,
                   pluginOptions |-> pluginOptions, before |-> directories,
                   threw |-> r.threw, error |-> r.error, value |-> r.files,
                   scans |-> r.scans, calls |-> 1, first |-> r.files]
  /\ UNCHANGED <<kept, rootDir, held, variant, directories, NODE_ENV>>

\* the caller repeats the getFiles call it has just made
GetFilesAgain ==
  /\ last.op = "getFiles"
  /\ last.calls = 1
  /\ \E r \in {getFiles(last.globString, last.pluginOptions, NODE_ENV)} :
       last' = [last EXCEPT !.threw = r.threw, !.error = r.error, !.value = r.files,
                            !.scans = r.scans, !.calls = 2]
  /\ UNCHANGED <<kept, rootDir, held, variant, directories, NODE_ENV>>

\* webpack runs the afterCompile hook on a compilation
AfterCompile ==
  /\ variant = SetBased
  /\ last = Idle
  /\ \E deps \in Containers :
       \E r \in {afterCompile(deps, directories)} :
          last' = [op |-> "afterCompile", before |-> deps,
                   contextDependencies |-> r.contextDependencies, log |-> r.log]
  /\ UNCHANGED <<kept, rootDir, held, variant, directories, NODE_ENV>>

\* the first invocation has taken the directories: the second finds none
AfterCompileAgainConsumed ==
  /\ last.op = "afterCompile"
  /\ \E r \in {afterCompile(last.contextDependencies, EmptyDirectories)} :
       last' = [op |-> "afterCompileAgain", first |-> last.before,
                before |-> last.contextDependencies,
                contextDependencies |-> r.contextDependencies, log |-> r.log]
  /\ UNCHANGED <<kept, rootDir, held, variant, directories, NODE_ENV>>

\* webpack runs the afterCompile hook once more on the same container, with no
\* getEntries call in between
AfterCompileAgain ==
  /\ last.op = "afterCompile"
  /\ \E r \in {afterCompile(last.contextDependencies, directories)} :
       last' = [op |-> "afterCompileAgain", first |-> last.before,
                before |-> last.contextDependencies,
                contextDependencies |-> r.contextDependencies, log |-> r.log]
  /\ UNCHANGED <<kept, rootDir, held, variant, directories, NODE_ENV>>

\* webpack runs the afterCompile hook of the deferred version
AfterCompileDeferred ==
  /\ variant = Deferred
  /\ last = Idle
  /\ \E deps \in Containers :
       \E r \in {afterCompileDeferred(deps, directories)} :
          last' = [op |-> "afterCompileDeferred", before |-> deps,
                   contextDependencies |-> r.contextDependencies, log |-> r.log]
  /\ UNCHANGED <<kept, rootDir, held, variant, directories, NODE_ENV>>

\* webpack installs the plugin on a compiler
Apply ==
  /\ last = Idle
  /\ \E compiler \in Compilers :
       last' = [op |-> "apply", compiler |-> compiler, registrations |-> apply(compiler)]
  /\ UNCHANGED <<kept, rootDir, held, variant, directories, NODE_ENV>>

\* the process environment changes
SetEnv ==
  /\ last = Idle
  /\ \E env \in Environments \ {NODE_ENV} : NODE_ENV' = env
  /\ UNCHANGED <<kept, rootDir, held, variant, directories, last>>

\* the caller has taken the outcome of the operation and goes on
Continue ==
  /\ last # Idle
  /\ last' = Idle
  /\ UNCHANGED <<kept, rootDir, held, variant, directories, NODE_ENV>>

Next ==
  \/ GetEntries
  \/ GetEntriesDeferred
  \/ RunEntries
  \/ GetFiles
  \/ GetFilesAgain
  \/ Apply
  \/ AfterCompile
  \/ AfterCompileAgain
  \/ AfterCompileDeferred
  \/ SetEnv
  \/ Continue

Spec == Init /\ [][Next]_vars

\* ------------------------------------------- functions kept for later calls
\* what the callers that keep the returned function pass to getEntries
KeptGlobs ==
  {Str(P_DotSrc), Str(P_DotTest), Str(P_Private), Arr(<<Str(P_Src), Str(P_DotSrc)>>)}

InitKept ==
  /\ variant = Deferred
  /\ directories = EmptyDirectories
  /\ NODE_ENV \in Environments
  /\ last = Idle
  /\ kept = <<>>
  /\ rootDir = CWD
  /\ held = NoRune

\* a caller invokes getEntries of the deferred version and keeps the function
\* it returns
GetEntriesLater ==
  /\ variant = Deferred
  /\ last = Idle
  /\ Len(kept) < MaxKept
  /\ \E globs \in KeptGlobs, pluginOptions \in {NoFields("undefined")} :
       \E r \in {getEntriesDeferred(globs, pluginOptions, directories)} :
          /\ directories' = r.directories
          /\ kept' = Append(kept, r.returned)
          /\ last' = [op |-> "getEntriesDeferred", globs |-> globs,
                      pluginOptions |-> pluginOptions, before |-> directories,
                      threw |-> r.threw, error |-> r.error, returned |-> r.returned]
  /\ UNCHANGED <<rootDir, held, variant, NODE_ENV>>

\* the caller invokes one of the functions it has kept
RunKept ==
  /\ last = Idle
  /\ \E i \in 1..Len(kept) :
       \E r \in {runEntries(kept[i], NODE_ENV, directories)} :
          /\ directories' = r.directories
          /\ last' = [op |-> "keptEntries", globs |-> kept[i].globs,
                      pluginOptions |-> kept[i].options, before |-> directories,
                      threw |-> r.threw, error |-> r.error,
                      value |-> r.value, scans |-> r.scans, function |-> i]
  /\ UNCHANGED <<kept, rootDir, held, variant, NODE_ENV>>

NextKept ==
  \/ GetEntriesLater
  \/ RunKept
  \/ AfterCompileDeferred
  \/ SetEnv
  \/ Continue

SpecKept == InitKept /\ [][NextKept]_vars

\* ------------------------------------------------------------------ claims
Range(q) == {q[i] : i \in 1..Len(q)}

NoDuplicates(q) == \A i, j \in 1..Len(q) : q[i] = q[j] => i = j

Called == last.op = "getEntries"
Completed == Called /\ ~last.threw
Compiled == last.op = "afterCompile"

\* the patterns of the last call, as a sequence
PatternsOfCall == IF last.globs.t = "array" THEN last.globs.items ELSE <<last.globs>>

OptionsPassFirstCheck == last.pluginOptions.t \in {"undefined", "object", "null"}

\* C1: after a getEntries call completes, directories holds exactly the distinct
\* glob-parent bases of the patterns of that call, whatever was tracked before
\* and however many files each pattern matched.
C1_DirectoriesAreBasesOfCall ==
  Completed =>
    /\ Range(directories) = {globParent(g.v) : g \in Range(PatternsOfCall)}
    /\ NoDuplicates(directories)

\* a completed call that replaced an earlier base, with a pattern matching no file
C1_Witness ==
  /\ Completed
  /\ last.before = <<globParent(P_DotSrc)>>
  /\ last.globs = Arr(<<Str(P_DotTest), Str(P_Src)>>)
  /\ directories = <<globParent(P_DotTest), globParent(P_Src)>>
  /\ globSync(P_DotTest) = <<>>

\* what the i-th pattern of the last call yields on its own
FilesOfPattern(i) ==
  getFiles(PatternsOfCall[i], optionDefaults(last.pluginOptions), NODE_ENV).files

\* C2: when two patterns of one call produce the same entry name, the returned
\* map holds the targets produced by the later pattern.
C2_LastPatternWins ==
  Completed =>
    \A i \in 1..Len(PatternsOfCall) :
      \A name \in DOMAIN FilesOfPattern(i) :
        (\A j \in (i + 1)..Len(PatternsOfCall) : name \notin DOMAIN FilesOfPattern(j))
          => last.value[name] = FilesOfPattern(i)[name]

Callbacks(log) == {i \in 1..Len(log) : log[i] = CallbackEvent}

\* C3: every afterCompile invocation calls its callback exactly once, during the
\* invocation and after all insertions, for every number of tracked
\* directories and every shape of contextDependencies, in both versions.
C3_CallbackOnceAfterInsertions ==
  /\ Compiled =>
       /\ Callbacks(last.log) = {Len(last.log)}
       /\ Len(last.log) - 1 =
            (IF last.before.shape = "Neither" THEN 0 ELSE Len(directories))
  /\ last.op = "afterCompileDeferred" =>
       /\ Callbacks(last.log) = {Len(last.log)}
       /\ Len(last.log) - 1 =
            (CASE last.before.shape = "Set" -> Len(directories)
               [] last.before.shape = "Array" -> 1
               [] OTHER -> 0)

C3_Witness ==
  /\ Compiled
  /\ last.before.shape = "Array"
  /\ Len(directories) = 2
  /\ Len(last.log) = 3
  /\ last.log[3] = CallbackEvent

\* C4: for a globs value that is neither a string nor an array getEntries throws
\* a TypeError without any glob scan; it is the 'Globs must be a string or an
\* array of strings' error whenever pluginOptions passes the check made first.
C4_NonStringGlobsRejected ==
  (Called /\ last.globs.t \notin {"string", "array"}) =>
    /\ last.threw
    /\ last.scans = <<>>
    /\ last.error \in {ErrGlobs, ErrPluginOptions}
    /\ OptionsPassFirstCheck => last.error = ErrGlobs

C4_Witness ==
  /\ Called
  /\ last.globs = Null
  /\ last.pluginOptions = NoFields("undefined")
  /\ last.error = ErrGlobs
  /\ last.scans = <<>>

GlobOptionsAccepted ==
  LET x == Field(last.pluginOptions, "globOptions")
  IN x.t \in {"undefined", "null", "object"}

\* C5: an array with an element that is not a string is rejected by the input
\* validation with the 'Globs must be ...' error, before any pattern is
\* processed and before any scan.
C5_MixedArrayRejected ==
  (/\ Called
   /\ last.globs.t = "array"
   /\ \E g \in Range(last.globs.items) : g.t # "string"
   /\ OptionsPassFirstCheck
   /\ GlobOptionsAccepted) =>
    /\ last.error = ErrGlobs
    /\ last.scans = <<>>
    /\ directories = last.before

\* C6: pluginOptions that is a string, number, boolean or function makes
\* getEntries throw 'pluginOptions_ must be an object' before any scan.
C6_NonObjectOptionsRejected ==
  (Called /\ last.pluginOptions.t \in {"string", "number", "boolean", "function"}) =>
    /\ last.threw
    /\ last.error = ErrPluginOptions
    /\ last.scans = <<>>

C6_Witness ==
  /\ Called
  /\ last.pluginOptions.t = "function"
  /\ last.globs = Arr(<<Str(P_Src)>>)
  /\ last.error = ErrPluginOptions

\* C7: a globOptions that is provided and is not an object (0, '' and false
\* included) makes getEntries throw 'globOptions must be an object', and the
\* value never reaches the glob scan.
C7_NonObjectGlobOptionsRejected ==
  (/\ Called
   /\ last.pluginOptions.t = "object"
   /\ Field(last.pluginOptions, "globOptions").t \in {"string", "number", "boolean"}
   /\ last.globs.t \in {"string", "array"}) =>
    /\ last.error = ErrGlobOptions
    /\ \A i \in 1..Len(last.scans) :
         last.scans[i].globOptions # Field(last.pluginOptions, "globOptions")

\* the outcome of the same call made with the one-element array
AsOneElementArray ==
  getEntries(Arr(<<last.globs>>), last.pluginOptions, NODE_ENV, last.before)

\* C8: getEntries(g) with a string g leaves the caller's value the same
\* string, never modifies a caller's array, and has the outcome and the
\* tracked directories of getEntries([g]).
C8_StringIsOneElementArray ==
  /\ Called => last.callerGlobs = last.globs
  /\ (Called /\ last.globs.t = "string") =>
       /\ last.threw = AsOneElementArray.threw
       /\ last.error = AsOneElementArray.error
       /\ last.value = AsOneElementArray.value
       /\ directories = AsOneElementArray.directories

C8_Witness ==
  /\ Completed
  /\ last.globs = Str(P_DotSrc)
  /\ last.callerGlobs = Str(P_DotSrc)
  /\ last.value # EmptyObject
  /\ directories = <<globParent(P_DotSrc)>>

\* C9: for a Set-shaped contextDependencies, afterCompile leaves the previous
\* contents united with the normalized tracked directories, and a directory
\* already present does not change the size.
C9_SetGainsNormalizedDirectories ==
  (Compiled /\ last.before.shape = "Set") =>
    /\ last.contextDependencies.shape = "Set"
    /\ Range(last.contextDependencies.values) =
         Range(last.before.values) \cup {normalize(d) : d \in Range(directories)}
    /\ NoDuplicates(last.contextDependencies.values)

\* './src' and 'src' are tracked and 'src' is already in the Set
C9_Witness ==
  /\ Compiled
  /\ last.before = SetOf(<<<<SRC>>>>)
  /\ directories = <<<<DOT, SRC>>, <<SRC>>>>
  /\ last.contextDependencies = SetOf(<<<<SRC>>>>)

\* C10: for an array-shaped contextDependencies, afterCompile appends the
\* normalized tracked directories, in tracked order, to the existing array,
\* also those the array already holds.
C10_ArrayAppendsInOrder ==
  (Compiled /\ last.before.shape = "Array") =>
    /\ last.contextDependencies.shape = "Array"
    /\ last.contextDependencies.values =
         last.before.values \o [i \in 1..Len(directories) |-> normalize(directories[i])]

C10_Witness ==
  /\ Compiled
  /\ last.before = ArrayDeps(<<<<SRC>>, <<LIB>>>>)
  /\ directories = <<<<DOT, TEST>>, <<DOT, SRC>>>>
  /\ last.contextDependencies = ArrayDeps(<<<<SRC>>, <<LIB>>, <<TEST>>, <<SRC>>>>)

CompiledEither == last.op \in {"afterCompile", "afterCompileDeferred"}

\* C11: afterCompile with no tracked directory leaves the contents of the
\* dependency container as they were (for an array the same elements in the
\* same order) and calls its callback exactly once, in both versions.
C11_NoDirectoriesNoChange ==
  (CompiledEither /\ directories = <<>>) =>
    /\ last.contextDependencies = last.before
    /\ Callbacks(last.log) = {Len(last.log)}

C11_Witness ==
  /\ last.op = "afterCompile"
  /\ directories = <<>>
  /\ last.before = ArrayDeps(<<<<SRC>>, <<LIB>>>>)
  /\ last.contextDependencies = ArrayDeps(<<<<SRC>>, <<LIB>>>>)
  /\ last.log = <<CallbackEvent>>

GotFiles == last.op = "getFiles" /\ ~last.threw

BasenameAsEntryName == Truthy(Field(last.pluginOptions, "basename_as_entry_name"))

\* the files the scan of the getFiles call reported
MatchedFiles == Range(globSync(last.globString.v))

\* the path of a matched file relative to the base of the pattern
RelativeOf(file) == relative(globParent(last.globString.v), file)

\* a path without the extension of its file name
StripExtension(p) ==
  IF p = <<>> \/ extname(p) = "" THEN p
  ELSE SubSeq(p, 1, Len(p) - 1) \o <<SubSeq(p[Len(p)], 1, Len(p[Len(p)]) - 1)>>

\* C12: the entry names getFiles derives are the paths of the matched files
\* relative to the glob-parent base with the trailing extension of the file
\* removed and nothing else: a/x.ts and a/b/y.ts give x and b/y, and the same
\* characters in a directory segment stay.
C12_EntryNameStripsTrailingExtension ==
  (GotFiles /\ ~BasenameAsEntryName) =>
    DOMAIN last.value = {StripExtension(RelativeOf(f)) : f \in MatchedFiles}

\* C13: with basename_as_entry_name every entry name is the final segment of
\* the extension-stripped relative path and has no separator; without the
\* option the name has as many segments as the relative path.
C13_BasenameIsFinalSegment ==
  GotFiles =>
    IF BasenameAsEntryName
      THEN DOMAIN last.value =
             {<<StripExtension(RelativeOf(f))[Len(RelativeOf(f))]>> : f \in MatchedFiles}
      ELSE /\ \A f \in MatchedFiles :
                \E name \in DOMAIN last.value : Len(name) = Len(RelativeOf(f))
           /\ \A name \in DOMAIN last.value :
                \E f \in MatchedFiles : Len(name) = Len(RelativeOf(f))

HmrActive == Truthy(Field(last.pluginOptions, "includeHMR")) /\ NODE_ENV = "development"

DevelopmentURLOfCall ==
  Nullish(Field(last.pluginOptions, "developmentURL"), DefaultDevelopmentURL).v

\* the files of a pattern that the options of the last call give the entry name
FilesNamed(pattern, name) ==
  {f \in Range(globSync(pattern)) :
     entryNameOf(globParent(pattern), f, last.pluginOptions) = name}

HasHelper(targets) == \E i \in 1..Len(targets.v) : targets.v[i].k = "hmr"

\* C14: the targets getFiles gives an entry hold the helper URL if and only if
\* includeHMR is truthy and NODE_ENV is 'development'; then they hold the file
\* and a helper URL with developmentURL (http://localhost:5000 when absent),
\* and otherwise they are the one-element list of the file.
C14_HelperOnlyInDevelopment ==
  GotFiles =>
    \A name \in DOMAIN last.value :
      LET targets == last.value[name]
      IN /\ HasHelper(targets) <=> HmrActive
         /\ HmrActive =>
              \E f \in FilesNamed(last.globString.v, name) :
                /\ targets.t = "array"
                /\ Range(targets.v) = {FileItem(f), HmrItem(DevelopmentURLOfCall)}
         /\ ~HmrActive =>
              \E f \in FilesNamed(last.globString.v, name) :
                targets = ArrayOf(<<FileItem(f)>>)

C14_Witness ==
  /\ GotFiles
  /\ last.globString = Str(P_DotSrc)
  /\ NODE_ENV = "development"
  /\ Field(last.pluginOptions, "includeHMR") = Bool("true")
  /\ Field(last.pluginOptions, "developmentURL") = Undefined
  /\ last.value[<<<<"Rune">>>>] =
       ArrayOf(<<FileItem(<<DOT, SRC, <<"Rune", ".ts">>>>),
                 HmrItem(Text("http://localhost:5000"))>>)

\* the patterns a returned map was resolved from
PatternsResolved ==
  IF last.op = "getFiles" THEN {last.globString.v}
  ELSE {g.v : g \in Range(PatternsOfCall)}

\* C15: every value of a map returned by getFiles or by getEntries is an array
\* of one or two strings that holds the path of the matched file, whatever the
\* options and NODE_ENV are.
C15_TargetsAreArraysWithTheFile ==
  (GotFiles \/ Completed) =>
    \A name \in DOMAIN last.value :
      LET targets == last.value[name]
      IN /\ targets.t = "array"
         /\ Len(targets.v) \in {1, 2}
         /\ \E pattern \in PatternsResolved : \E f \in FilesNamed(pattern, name) :
              FileItem(f) \in Range(targets.v)

C15_Witness ==
  /\ Completed
  /\ NODE_ENV = "production"
  /\ last.globs = Arr(<<Str(P_DotSrc)>>)
  /\ Field(last.pluginOptions, "includeHMR") = Bool("true")
  /\ last.value[<<PLUGINS, <<"GlobWatcher">>>>] =
       ArrayOf(<<FileItem(<<DOT, SRC, PLUGINS, <<"GlobWatcher", ".ts">>>>)>>)

MatchesNothing(g) ==
  g.t = "string" /\ g.v \notin Unreadable /\ globSync(g.v) = <<>>

\* C16: getEntries([]) returns the empty map, and a call whose patterns all
\* match no file returns the empty map without an error.
C16_NothingMatchedIsEmptyMap ==
  (/\ Called
   /\ validate(last.globs, last.pluginOptions) = "none"
   /\ \A g \in Range(PatternsOfCall) : MatchesNothing(g)) =>
    /\ ~last.threw
    /\ last.value = EmptyObject

\* the empty list of patterns, after a call that had matches
C16_Witness ==
  /\ Completed
  /\ last.globs = Arr(<<>>)
  /\ last.before = <<globParent(P_Src)>>
  /\ last.value = EmptyObject

C18_OneRegistrationPerApply ==
  last.op = "apply" =>
    /\ Len(last.registrations) = 1
    /\ last.registrations[1].handler = "afterCompile"
    /\ last.compiler.hooks =>
         /\ last.registrations[1].api = "tapAsync"
         /\ last.registrations[1].name = "GlobWatcher"
    /\ ~last.compiler.hooks =>
         /\ last.registrations[1].api = "plugin"
         /\ last.registrations[1].name = "after-compile"

\* a compiler that has both APIs is registered through its hooks
C18_Witness ==
  /\ last.op = "apply"
  /\ last.compiler = Compiler(TRUE, TRUE)
  /\ last.registrations = <<Registration("tapAsync", "GlobWatcher", TRUE)>>

\* a call of either version that has resolved its patterns
Resolved ==
  \/ Completed
  \/ last.op = "entries" /\ ~last.threw

\* C19: directories holds normalized directories without duplicates: after
\* getEntries(['./src/**/*.ts', './test/**/*.ts']) it is {src, test}, and it
\* never holds two values that path.normalize maps to the same directory.
C19_DirectoriesNormalizedAndDistinct ==
  /\ (Resolved /\ last.globs = Arr(<<Str(P_DotSrc), Str(P_DotTest)>>)) =>
       Range(directories) = {<<SRC>>, <<TEST>>}
  /\ \A i, j \in 1..Len(directories) :
       normalize(directories[i]) = normalize(directories[j]) => i = j

\* the position of the first pattern of the call whose scan fails
FailingIndex ==
  CHOOSE k \in 1..Len(PatternsOfCall) :
    /\ PatternsOfCall[k].v \in Unreadable
    /\ \A i \in 1..(k - 1) : PatternsOfCall[i].v \notin Unreadable

ScanFails ==
  /\ Called
  /\ validate(last.globs, last.pluginOptions) = "none"
  /\ \A g \in Range(PatternsOfCall) : g.t = "string"
  /\ \E g \in Range(PatternsOfCall) : g.v \in Unreadable

\* C20: when the scan of a pattern throws, getEntries throws that error and
\* returns no map; every pattern up to the failing one was scanned once and
\* no later pattern was scanned.
C20_ScanFailurePropagates ==
  ScanFails =>
    /\ last.threw
    /\ last.error = ScanFailure
    /\ last.value = EmptyObject
    /\ Len(last.scans) = FailingIndex
    /\ \A i \in 1..FailingIndex : last.scans[i].pattern = PatternsOfCall[i]

\* the failing pattern comes first and the second pattern is never scanned
C20_Witness ==
  /\ Called
  /\ last.globs = Arr(<<Str(P_Private), Str(P_DotSrc)>>)
  /\ last.error = ScanFailure
  /\ Len(last.scans) = 1

\* the directories of the last call, as afterCompile hands them over
NormalizedDirectories == [i \in 1..Len(directories) |-> normalize(directories[i])]

CompiledAgain == last.op = "afterCompileAgain"

\* C21 as stated: the first afterCompile consumes the directories, so a second
\* afterCompile with no getEntries call in between inserts nothing and an
\* array-shaped container does not grow.
C21_ConsumedByFirstAfterCompile ==
  CompiledAgain =>
    /\ last.contextDependencies = last.before
    /\ \A i \in 1..Len(last.log) : last.log[i].e \notin {"add", "push"}

\* C21, amended: directories holds the bases of the last getEntries call and
\* afterCompile reads it without clearing it, so a second afterCompile with no
\* getEntries call in between hands every directory over again: an array grows
\* by the tracked directories once more and a Set stays as the first
\* invocation left it.
C21_EveryAfterCompileInserts ==
  /\ Completed => Range(directories) = {globParent(g.v) : g \in Range(PatternsOfCall)}
  /\ CompiledAgain =>
       /\ last.before.shape = "Array" =>
            /\ last.before.values = last.first.values \o NormalizedDirectories
            /\ last.contextDependencies.values = last.before.values \o NormalizedDirectories
       /\ last.before.shape = "Set" =>
            /\ Range(NormalizedDirectories) \subseteq Range(last.before.values)
            /\ last.contextDependencies = last.before
       /\ last.before.shape \in {"Array", "Set"} => Len(last.log) = Len(directories) + 1
       /\ last.before.shape = "Neither" => last.contextDependencies = last.before

\* an array that held lib has the two directories twice after the second run
C21_Witness ==
  /\ CompiledAgain
  /\ directories = <<globParent(P_DotSrc), globParent(P_DotTest)>>
  /\ last.first = ArrayDeps(<<<<LIB>>>>)
  /\ last.contextDependencies =
       ArrayDeps(<<<<LIB>>, <<SRC>>, <<TEST>>, <<SRC>>, <<TEST>>>>)

\* the files of the getFiles call that are given the entry name, in scan order
ScannedAs(name) ==
  LET matched == globSync(last.globString.v)
  IN {j \in 1..Len(matched) :
        entryNameOf(globParent(last.globString.v), matched[j], last.pluginOptions) = name}

Latest(S) == CHOOSE j \in S : \A i \in S : i <= j

\* C24: when several files of one pattern derive the same entry name, the map
\* has that name once and its targets are those of the file the scan reported
\* last.
C24_LaterFileWinsWithinPattern ==
  GotFiles =>
    \A j \in 1..Len(globSync(last.globString.v)) :
      LET matched == globSync(last.globString.v)
          name == entryNameOf(globParent(last.globString.v), matched[j], last.pluginOptions)
      IN /\ name \in DOMAIN last.value
         /\ FileItem(matched[Latest(ScannedAs(name))]) \in Range(last.value[name].v)
         /\ \A i \in ScannedAs(name) \ {Latest(ScannedAs(name))} :
              FileItem(matched[i]) \notin Range(last.value[name].v)

\* src/Rune.ts and src/plugins/Rune.ts are both named Rune: the later one stays
C24_Witness ==
  /\ GotFiles
  /\ last.globString = Str(P_DotSrc)
  /\ BasenameAsEntryName
  /\ Cardinality(ScannedAs(<<<<"Rune">>>>)) = 2
  /\ last.value[<<<<"Rune">>>>] =
       ArrayOf(<<FileItem(<<DOT, SRC, PLUGINS, <<"Rune", ".ts">>>>)>>)

ValidationErrors == {ErrPluginOptions, ErrGlobs, ErrGlobOptions}

\* a getEntries call of either version that one of the argument checks rejected
Rejected ==
  /\ last.op \in {"getEntries", "getEntriesDeferred"}
  /\ last.threw
  /\ last.error \in ValidationErrors

\* C26: a getEntries call that fails the checks of its arguments leaves
\* GlobWatcher.directories exactly as it was before the call.
C26_RejectedCallKeepsDirectories ==
  /\ Rejected => directories = last.before
  /\ (last.op \in {"getEntries", "getEntriesDeferred"}
        /\ validate(last.globs, last.pluginOptions) # "none") => Rejected

\* a call rejected for its globOptions after a call that tracked two bases
C26_Witness ==
  /\ Rejected
  /\ last.op = "getEntries"
  /\ last.error = ErrGlobOptions
  /\ last.before = <<globParent(P_DotSrc), globParent(P_Src)>>
  /\ directories = last.before

\* C27: when the scan of the k-th pattern throws, directories holds exactly
\* the distinct bases of the patterns 1..k, the failing one included, and
\* nothing of the call before.
C27_FailedCallTracksUpToFailure ==
  ScanFails =>
    /\ Range(directories) = {globParent(PatternsOfCall[i].v) : i \in 1..FailingIndex}
    /\ NoDuplicates(directories)

\* the second pattern fails after a call that tracked another base
C27_Witness ==
  /\ ScanFails
  /\ last.globs = Arr(<<Str(P_Src), Str(P_Private)>>)
  /\ last.before = <<globParent(P_DotTest)>>
  /\ directories = <<globParent(P_Src), globParent(P_Private)>>

\* ------------------------------------------------ programs that use Rune
InitRune ==
  /\ variant = SetBased
  /\ directories = EmptyDirectories
  /\ NODE_ENV \in Environments
  /\ last = Idle
  /\ kept = <<>>
  /\ rootDir = CWD
  /\ held = NoRune

\* the program constructs a Rune
NewRune ==
  /\ variant = SetBased
  /\ last = Idle
  /\ \E options \in RuneOptionsInputs :
       \E r \in {newRune(options, NODE_ENV, rootDir, directories)} :
          /\ directories' = r.directories
          /\ rootDir' = r.rootDir
          /\ last' = [op |-> "newRune", options |-> options, before |-> directories,
                      rootBefore |-> rootDir, threw |-> r.threw, error |-> r.error,
                      rune |-> r.rune]
  /\ UNCHANGED <<kept, held, variant, NODE_ENV>>

\* the program keeps the Rune it has just constructed
HoldRune ==
  /\ last.op = "newRune"
  /\ ~last.threw
  /\ last.options \in HeldRuneOptions
  /\ held' = last.rune
  /\ last' = Idle
  /\ UNCHANGED <<kept, rootDir, variant, directories, NODE_ENV>>

\* the program asks the Rune it has just constructed for its configuration
GetConfig ==
  /\ last.op = "newRune"
  /\ ~last.threw
  /\ \E configOptions \in ConfigInputs :
       last' = [op |-> "getConfig", options |-> last.options, rune |-> last.rune,
                configOptions |-> configOptions,
                config |-> getConfig(last.rune, configOptions, rootDir)]
  /\ UNCHANGED <<kept, rootDir, held, variant, directories, NODE_ENV>>

\* every GlobWatcher hands over the directories of the Rune it was made for
CompileHeldOwnDirectories ==
  /\ last.op = "newRune"
  /\ ~last.threw
  /\ held # NoRune
  /\ "GlobWatcher" \in Range(getConfig(held, NoConfigOptions, rootDir).plugins[1])
  /\ \E deps \in RuneContainers :
       \E r \in {afterCompile(deps, <<globParent(entryPattern(held.entryPointDir))>>)} :
          last' = [op |-> "afterCompileOfHeld", rune |-> held, latest |-> last.rune,
                   before |-> deps, contextDependencies |-> r.contextDependencies,
                   log |-> r.log]
  /\ UNCHANGED <<kept, rootDir, held, variant, directories, NODE_ENV>>

\* webpack compiles with the configuration of the Rune the program holds, after
\* another Rune was constructed: the afterCompile hook of the GlobWatcher in
\* the plugins of that configuration runs
CompileHeld ==
  /\ last.op = "newRune"
  /\ ~last.threw
  /\ held # NoRune
  /\ "GlobWatcher" \in Range(getConfig(held, NoConfigOptions, rootDir).plugins[1])
  /\ \E deps \in RuneContainers :
       \E r \in {afterCompile(deps, directories)} :
          last' = [op |-> "afterCompileOfHeld", rune |-> held, latest |-> last.rune,
                   before |-> deps, contextDependencies |-> r.contextDependencies,
                   log |-> r.log]
  /\ UNCHANGED <<kept, rootDir, held, variant, directories, NODE_ENV>>

\* the program calls Rune.tools
Tools ==
  /\ last = Idle
  /\ \E argument \in {Undefined, Str(OTHER_ROOT)} :
       /\ rootDir' = tools(argument)
       /\ last' = [op |-> "tools", argument |-> argument]
  /\ UNCHANGED <<kept, held, variant, directories, NODE_ENV>>

NextRune ==
  \/ NewRune
  \/ HoldRune
  \/ GetConfig
  \/ CompileHeld
  \/ Tools
  \/ SetEnv
  \/ Continue

SpecRune == InitRune /\ [][NextRune]_vars

\* a function kept from a getEntries call has run
KeptRan == last.op = "keptEntries" /\ ~last.threw

\* C25: in the deferred version, once the function returned by getEntries(G)
\* has run, directories holds exactly the distinct bases of G, however the
\* getEntries calls and the calls of the returned functions are interleaved.
C25_DirectoriesAreBasesOfFunction ==
  KeptRan =>
    /\ Range(directories) = {globParent(g.v) : g \in Range(PatternsOfCall)}
    /\ NoDuplicates(directories)

Constructed == last.op = "newRune" /\ ~last.threw

GotConfig == last.op = "getConfig"

DevelopmentPassed == last.options.mode = Str(Text("development"))

\* C22: getConfig() without arguments returns a configuration whose mode is the
\* mode of the instance, 'production' unless 'development' was passed to the
\* constructor, whose watch flag is true exactly in development mode and
\* whose plugins hold a GlobWatcher exactly in development mode.
C22_ConfigFollowsInstanceMode ==
  (GotConfig /\ \A key \in ConfigKeys : last.configOptions[key] = <<>>) =>
    /\ last.rune.mode = IF DevelopmentPassed THEN "development" ELSE "production"
    /\ last.config.mode = <<last.rune.mode>>
    /\ last.config.watch = <<"true">> <=> DevelopmentPassed
    /\ last.config.watch = <<"false">> <=> ~DevelopmentPassed
    /\ "GlobWatcher" \in Range(last.config.plugins[1]) <=> DevelopmentPassed

\* a Rune given no mode under NODE_ENV=development is a production Rune
C22_Witness ==
  /\ GotConfig
  /\ ~last.configOptions.given
  /\ NODE_ENV = "development"
  /\ last.options.mode = Undefined
  /\ last.config.mode = <<"production">>
  /\ last.config.watch = <<"false">>
  /\ last.config.plugins = <<ProductionPlugins>>

\* C23: for every top-level key the user supplies in configOptions, plugins,
\* watchOptions and devtool included, getConfig returns the value of the user,
\* in production and in development mode.
C23_UserValueTakesPrecedence ==
  GotConfig =>
    \A key \in ConfigKeys :
      last.configOptions[key] # <<>> => last.config[key] = last.configOptions[key]

\* the directory the GlobWatcher.getEntries call of a Rune tracks
BaseOfRune(rune) == globParent(entryPattern(rune.entryPointDir))

\* C28: directories is one collection of the process: after Rune A and then
\* Rune B are constructed, the afterCompile hook of the GlobWatcher in the
\* development configuration of A inserts the directory of the getEntries
\* call of B, normalized, and nothing else.
C28_HeldRuneInsertsLatestDirectories ==
  last.op = "afterCompileOfHeld" =>
    LET inserted == normalize(BaseOfRune(last.latest))
    IN /\ directories = <<BaseOfRune(last.latest)>>
       /\ last.before.shape = "Set" =>
            /\ last.contextDependencies = SetOf(addDirectory(last.before.values, inserted))
            /\ last.log = <<Event("add", inserted), CallbackEvent>>
       /\ last.before.shape = "Array" =>
            /\ last.contextDependencies = ArrayDeps(Append(last.before.values, inserted))
            /\ last.log = <<Event("push", inserted), CallbackEvent>>

\* A was made for ./src/ and B for ./test/: the array is given test and not src
C28_Witness ==
  /\ last.op = "afterCompileOfHeld"
  /\ last.rune.entryPointDir = <<DOT, SRC, <<>>>>
  /\ last.latest.entryPointDir = <<DOT, TEST, <<>>>>
  /\ last.before = ArrayDeps(<<<<LIB>>>>)
  /\ last.contextDependencies = ArrayDeps(<<<<LIB>>, <<TEST>>>>)

\* C29: the entries of a Rune hold the helper URL if and only if the mode of
\* the instance is 'development', whatever NODE_ENV is.
C29_HelperFollowsInstanceMode ==
  Constructed =>
    \A name \in DOMAIN last.rune.entries :
      HasHelper(last.rune.entries[name]) <=> last.rune.mode = "development"

\* C30: a Rune constructed with rootDir R and without outputDir and manifest
\* has the defaults resolved under R, whatever root directory the class had
\* before, and the context of its configuration is R.
C30_DefaultsResolveUnderGivenRoot ==
  /\ (/\ Constructed
      /\ last.options.rootDir # Undefined
      /\ last.options.outputDir = Undefined
      /\ last.options.manifest = Undefined) =>
       /\ last.rune.outputDir = last.options.rootDir.v \o PUBLIC_BUNDLES
       /\ last.rune.manifest = last.options.rootDir.v \o ASSETS_MANIFEST
  /\ (/\ GotConfig
      /\ last.options.rootDir # Undefined
      /\ last.configOptions.context = <<>>) =>
       last.config.context = <<last.options.rootDir.v>>

====
